---- MODULE Spec2Model ----
(***************************************************************************)
(* User-management service: account lifecycle (create / read / update /   *)
(* delete), e-mail + password login, and demo seeding, over one users      *)
(* table.  Every handler is one action; the table is the only shared state.*)
(***************************************************************************)
EXTENDS Integers, Sequences, FiniteSets, TLC

(* ------------------------------ bounds -------------------------------- *)
\* ids the serial column can hand out in a run
MaxId == 4
\* instants of the clock: 0..MaxTime
MaxTime == 1
\* distinct salts the password hasher can draw
NumSalts == 1
\* calls of a run that change the table
MaxWrites == 2

(* ------------------------------ strings ------------------------------- *)
\* A string is the sequence of its characters.
Lower(c) == CASE c = "A" -> "a"
              [] c = "B" -> "b"
              [] OTHER -> c

RECURSIVE LikeFrom(_, _, _, _)
\* SQL LIKE on lower-cased operands: pattern p from position i against
\* string s from position j; "%" matches any run, "_" any one character.
LikeFrom(p, i, s, j) ==
    IF i > Len(p) THEN j > Len(s)
    ELSE IF p[i] = "%"
         THEN \E k \in j..(Len(s) + 1) : LikeFrom(p, i + 1, s, k)
         ELSE /\ j <= Len(s)
              /\ (p[i] = "_" \/ Lower(p[i]) = Lower(s[j]))
              /\ LikeFrom(p, i + 1, s, j + 1)

ilike(s, pattern) == LikeFrom(pattern, 1, s, 1)

(* ------------------------------ schema -------------------------------- *)
userRoleSchema == {"admin", "reseller", "user"}

SafeFields == {"id", "username", "email", "role", "is_active",
               "created_at", "updated_at"}

UserFields == SafeFields \cup {"password_hash"}

DEMO_USERS ==
    << [username |-> <<"a", "d", "m", "i", "n", "_", "d", "e", "m", "o">>,
        email    |-> <<"a", "d", "m", "i", "n", "@", "d", "e", "m", "o", ".", "c", "o", "m">>,
        password |-> "admin123",
        role     |-> "admin"],
       [username |-> <<"r", "e", "s", "e", "l", "l", "e", "r", "_", "d", "e", "m", "o">>,
        email    |-> <<"r", "e", "s", "e", "l", "l", "e", "r", "@", "d", "e", "m", "o", ".", "c", "o", "m">>,
        password |-> "reseller123",
        role     |-> "reseller"],
       [username |-> <<"u", "s", "e", "r", "_", "d", "e", "m", "o">>,
        email    |-> <<"u", "s", "e", "r", "@", "d", "e", "m", "o", ".", "c", "o", "m">>,
        password |-> "user123",
        role     |-> "user"] >>

(* ---------------------------- input pools ----------------------------- *)
\* What the callers of a run supply.
Usernames == { <<"a", "b">>, DEMO_USERS[2].username }
CreateEmails == { <<"a", "@", "x">>, DEMO_USERS[1].email }
UpdateUsernames == { <<"a", "b">> }
UpdateEmails == { <<"a", "@", "x">>, <<"A", "@", "x">> }
Emails    == CreateEmails \cup UpdateEmails
CreatePasswords == { "pw1" }
UpdatePasswords == { "pw2" }
LoginPasswords  == CreatePasswords \cup UpdatePasswords \cup { "admin123" }
CreateRoles == { "admin", "user" }
UpdateRoles == { "reseller" }
Searches  == { <<"A">>, <<"_">>, << >>, <<"A", "@", "x">> }
Ids   == 1..(MaxId + 1)
Salts == 1..NumSalts

(* --------------------------- password hasher -------------------------- *)
\* Bun.password.hash: a salted digest in PHC form ("$argon2id$...").
BunPasswordHash(password, salt) ==
    [alg |-> "argon2id", pw |-> password, salt |-> salt]

\* Variant of hashPassword: the password is handed back as it is (a stored
\* value of form "plain" is the password text itself).
hashPassword_Identity(password) ==
    [alg |-> "plain", pw |-> password, salt |-> 0]

\* The seeder's own hasher: hex SHA-256 of password + 'salt_demo_2024'.
hashPassword(password) ==
    [alg |-> "sha256hex", pw |-> password, salt |-> 0]

\* Variant of BunPasswordVerify: every password is accepted for a digest in
\* a known form.
BunPasswordVerify_AnyPassword(password, digest) ==
    IF digest.alg = "argon2id" THEN "true" ELSE "throw"

\* Bun.password.verify: the algorithm is read from the digest's "$..." prefix;
\* a digest without a known prefix is rejected (the promise rejects).
BunPasswordVerify(password, digest) ==
    IF digest.alg = "argon2id"
    THEN IF digest.pw = password THEN "true" ELSE "false"
    ELSE "throw"

(* ------------------------------- store -------------------------------- *)
\* The users table behind the query builder: a set of rows, a serial id
\* column, unique username and unique email, is_active defaulting to true
\* and both timestamps defaulting to the time of the insert.
Restrict(f, S) == [x \in S |-> f[x]]

\* Variant of dbSelectByEmail: emails are compared without regard to letter
\* case.
dbSelectByEmail_IgnoreCase(rows, email) ==
    { u \in rows : /\ Len(u.email) = Len(email)
                   /\ \A i \in DOMAIN email : Lower(u.email[i]) = Lower(email[i]) }

dbSelectByEmail(rows, email) == { u \in rows : u.email = email }

dbSelectById(rows, id) == { u \in rows : u.id = id }

dbSelectByRole(rows, role) == { u \in rows : u.role = role }

\* Variant of UniqueViolation: only the email column is unique.
UniqueViolation_EmailOnly(rows, id, username, email) ==
    \E u \in rows : u.id # id /\ u.email = email

\* Variant of UniqueViolation: only usernames are kept unique.
UniqueViolation_UsernameOnly(rows, id, username, email) ==
    \E u \in rows : u.id # id /\ u.username = username

\* Variant of UniqueViolation: the table has no unique constraint.
UniqueViolation_Never(rows, id, username, email) == FALSE

\* Would a row with this id, username and email break a unique constraint?
UniqueViolation(rows, id, username, email) ==
    \E u \in rows : u.id # id /\ (u.username = username \/ u.email = email)

\* insert(values).returning(): the new row, or a unique-constraint error.
dbInsert(db, t, values) ==
    IF UniqueViolation(db.users, db.nextId, values.username, values.email)
    THEN [ok |-> FALSE, db |-> db, row |-> << >>]
    ELSE LET row == [id            |-> db.nextId,
                     username      |-> values.username,
                     email         |-> values.email,
                     password_hash |-> values.password_hash,
                     role          |-> values.role,
                     is_active     |-> IF "is_active" \in DOMAIN values
                                       THEN values.is_active ELSE TRUE,
                     created_at    |-> t,
                     updated_at    |-> t]
         IN [ok  |-> TRUE,
             db  |-> [users |-> db.users \cup {row}, nextId |-> db.nextId + 1],
             row |-> row]

\* update.set(values).where(id = ...).returning(): the rows written (none when
\* no row has the id), or a unique-constraint error.
dbUpdate(db, id, values) ==
    LET old == dbSelectById(db.users, id)
        new == { [f \in UserFields |->
                    IF f \in DOMAIN values THEN values[f] ELSE u[f]] : u \in old }
    IN IF \E n \in new : UniqueViolation(db.users, id, n.username, n.email)
       THEN [ok |-> FALSE, db |-> db, rows |-> {}]
       ELSE [ok   |-> TRUE,
             db   |-> [db EXCEPT !.users = (db.users \ old) \cup new],
             rows |-> new]

\* Variant of dbDelete: the delete has no where clause.
dbDelete_NoWhere(db, id) ==
    [db       |-> [db EXCEPT !.users = {}],
     rowCount |-> Cardinality(db.users)]

\* delete.where(id = ...): rowCount of the rows removed.
dbDelete(db, id) ==
    LET old == dbSelectById(db.users, id)
    IN [db |-> [db EXCEPT !.users = db.users \ old], rowCount |-> Cardinality(old)]

(* ------------------------------ results ------------------------------- *)
\* What a call hands back: a normal return (a list of user objects, a null,
\* a boolean, a message, as the operation has them) or a raised error.
Return(users, isNull, flag, message) ==
    [out |-> "return", err |-> "none", users |-> users, isNull |-> isNull,
     flag |-> flag, message |-> message]

Throw(err) ==
    [out |-> "throw", err |-> err, users |-> << >>, isNull |-> FALSE,
     flag |-> FALSE, message |-> ""]

\* Variant of SafeUserOf: the row is handed back as selected.
SafeUserOf_WholeRow(user) == user

\* An object literal listing the seven safe columns one by one.
SafeUserOf(user) ==
    [id         |-> user.id,
     username   |-> user.username,
     email      |-> user.email,
     role       |-> user.role,
     is_active  |-> user.is_active,
     created_at |-> user.created_at,
     updated_at |-> user.updated_at]

\* const { password_hash, ...safeUser } = row
OmitPasswordHash(row) == Restrict(row, DOMAIN row \ {"password_hash"})

RECURSIVE RowsById(_)
\* rows of a result set in the table's order (ascending id)
RowsById(S) ==
    IF S = {} THEN << >>
    ELSE LET m == CHOOSE u \in S : \A v \in S : u.id <= v.id
         IN <<m>> \o RowsById(S \ {m})

(* ------------------------------ handlers ------------------------------ *)
\* Each handler maps the database (db.users, db.nextId) and its input to the
\* database it leaves and the result it hands back.

InvalidCredentials == Return(<< >>, FALSE, FALSE, "Invalid email or password")

\* the result of loginUser's catch block
ServerError == Return(<< >>, FALSE, FALSE, "Login failed due to server error")

\* the messages loginUser can return
LoginMessages == {"Login successful", "Invalid email or password",
                  "Account is deactivated", "Login failed due to server error"}

\* Variant of loginUserTry: the password is verified before is_active is
\* looked at.
loginUserTry_VerifyFirst(db, input, fault) ==
    IF fault = "select" THEN Throw("StoreError")
    ELSE LET users == dbSelectByEmail(db.users, input.email)
         IN IF users = {} THEN InvalidCredentials
            ELSE LET user == CHOOSE u \in users : TRUE
                     passwordMatch ==
                         IF fault = "verify" THEN "throw"
                         ELSE BunPasswordVerify(input.password, user.password_hash)
                 IN CASE passwordMatch = "throw" -> Throw("HasherError")
                      [] passwordMatch = "false" -> InvalidCredentials
                      [] ~user.is_active ->
                           Return(<< >>, FALSE, FALSE, "Account is deactivated")
                      [] OTHER ->
                           Return(<<SafeUserOf(user)>>, FALSE, TRUE,
                                  "Login successful")

\* The try block of loginUser.  fault names the await that fails
\* unexpectedly in this call: "select", "verify" or "none".
loginUserTry(db, input, fault) ==
    IF fault = "select" THEN Throw("StoreError")
    ELSE LET users == dbSelectByEmail(db.users, input.email)
         IN IF users = {} THEN InvalidCredentials
            ELSE LET user == CHOOSE u \in users : TRUE
                 IN IF ~user.is_active
                    THEN Return(<< >>, FALSE, FALSE, "Account is deactivated")
                    ELSE LET passwordMatch ==
                                 IF fault = "verify" THEN "throw"
                                 ELSE BunPasswordVerify(input.password,
                                                        user.password_hash)
                         IN CASE passwordMatch = "throw" -> Throw("HasherError")
                              [] passwordMatch = "false" -> InvalidCredentials
                              [] OTHER ->
                                   Return(<<SafeUserOf(user)>>, FALSE, TRUE,
                                          "Login successful")

\* Variant of loginUser: no catch around the try block.
loginUser_NoCatch(db, input, fault) ==
    [db |-> db, res |-> loginUserTry(db, input, fault)]

\* Variant of loginUser: a password mismatch deactivates the account.
loginUser_LocksAccount(db, input, fault) ==
    LET r == loginUserTry(db, input, fault)
        hit == { u \in dbSelectByEmail(db.users, input.email) :
                   u.is_active /\ r = InvalidCredentials }
    IN [db  |-> [db EXCEPT !.users =
                    (db.users \ hit) \cup { [u EXCEPT !.is_active = FALSE] : u \in hit }],
        res |-> IF r.out = "throw" THEN ServerError ELSE r]

loginUser(db, input, fault) ==
    LET r == loginUserTry(db, input, fault)
    IN [db  |-> db,
        res |-> IF r.out = "throw" THEN ServerError ELSE r]

\* Variant of createUser: every new account gets the role 'user'.
createUser_FixedRole(db, t, salt, input) ==
    LET result == dbInsert(db, t, [username      |-> input.username,
                                   email         |-> input.email,
                                   password_hash |-> BunPasswordHash(input.password, salt),
                                   role          |-> "user",
                                   is_active     |-> TRUE])
    IN IF result.ok
       THEN [db |-> result.db,
             res |-> Return(<<SafeUserOf(result.row)>>, FALSE, FALSE, "")]
       ELSE [db |-> db, res |-> Throw("Conflict")]

\* Variant of createUser: the catch block logs the error and returns nothing.
createUser_SwallowsError(db, t, salt, input) ==
    LET result == dbInsert(db, t, [username      |-> input.username,
                                   email         |-> input.email,
                                   password_hash |-> BunPasswordHash(input.password, salt),
                                   role          |-> input.role,
                                   is_active     |-> TRUE])
    IN IF result.ok
       THEN [db |-> result.db,
             res |-> Return(<<SafeUserOf(result.row)>>, FALSE, FALSE, "")]
       ELSE [db |-> db, res |-> Return(<< >>, TRUE, FALSE, "")]

createUser(db, t, salt, input) ==
    LET passwordHash == BunPasswordHash(input.password, salt)
        result == dbInsert(db, t, [username      |-> input.username,
                                   email         |-> input.email,
                                   password_hash |-> passwordHash,
                                   role          |-> input.role,
                                   is_active     |-> TRUE])
    IN IF result.ok
       THEN [db |-> result.db,
             res |-> Return(<<SafeUserOf(result.row)>>, FALSE, FALSE, "")]
       ELSE [db |-> db, res |-> Throw("Conflict")]

\* Variant of updateValues: a password in the input is not staged.
updateValues_DropsPassword(t, salt, input) ==
    LET plain == DOMAIN input \cap {"username", "email", "role", "is_active"}
    IN [f \in {"updated_at"} \cup plain |->
          IF f = "updated_at" THEN t ELSE input[f]]

\* Variant of updateValues: created_at is staged along with updated_at.
updateValues_TouchesCreatedAt(t, salt, input) ==
    LET plain == DOMAIN input \cap {"username", "email", "role", "is_active"}
        keys  == {"updated_at", "created_at"} \cup plain \cup
                 (IF "password" \in DOMAIN input THEN {"password_hash"} ELSE {})
    IN [f \in keys |->
          CASE f \in {"updated_at", "created_at"} -> t
            [] f = "password_hash" -> BunPasswordHash(input.password, salt)
            [] OTHER               -> input[f]]

\* updateValues of updateUser: updated_at always, each supplied field, and
\* the digest of a supplied password.
updateValues(t, salt, input) ==
    LET plain == DOMAIN input \cap {"username", "email", "role", "is_active"}
        keys  == {"updated_at"} \cup plain \cup
                 (IF "password" \in DOMAIN input THEN {"password_hash"} ELSE {})
    IN [f \in keys |->
          CASE f = "updated_at"    -> t
            [] f = "password_hash" -> BunPasswordHash(input.password, salt)
            [] OTHER               -> input[f]]

\* Variant of updateUser: a missing user is reported by raising an error.
updateUser_ThrowsNotFound(db, t, salt, input) ==
    LET result == dbUpdate(db, input.id, updateValues(t, salt, input))
    IN IF ~result.ok THEN [db |-> db, res |-> Throw("Conflict")]
       ELSE IF result.rows = {}
            THEN [db |-> result.db, res |-> Throw("NotFound")]
            ELSE [db  |-> result.db,
                  res |-> Return(<<SafeUserOf(CHOOSE u \in result.rows : TRUE)>>,
                                 FALSE, FALSE, "")]

\* Variant of updateUser: a refused update is reported as a missing user.
updateUser_ConflictAsNull(db, t, salt, input) ==
    LET existingUser == dbSelectById(db.users, input.id)
    IN IF existingUser = {}
       THEN [db |-> db, res |-> Return(<< >>, TRUE, FALSE, "")]
       ELSE LET result == dbUpdate(db, input.id, updateValues(t, salt, input))
            IN IF ~result.ok \/ result.rows = {}
               THEN [db |-> db, res |-> Return(<< >>, TRUE, FALSE, "")]
               ELSE [db  |-> result.db,
                     res |-> Return(<<SafeUserOf(CHOOSE u \in result.rows : TRUE)>>,
                                    FALSE, FALSE, "")]

updateUser(db, t, salt, input) ==
    LET existingUser == dbSelectById(db.users, input.id)
    IN IF existingUser = {}
       THEN [db |-> db, res |-> Return(<< >>, TRUE, FALSE, "")]
       ELSE LET result == dbUpdate(db, input.id, updateValues(t, salt, input))
            IN IF ~result.ok THEN [db |-> db, res |-> Throw("Conflict")]
               ELSE IF result.rows = {}
                    THEN [db |-> result.db, res |-> Return(<< >>, TRUE, FALSE, "")]
                    ELSE [db  |-> result.db,
                          res |-> Return(<<SafeUserOf(CHOOSE u \in result.rows : TRUE)>>,
                                         FALSE, FALSE, "")]

\* Variant of deleteUser: the row count of the delete is not looked at.
deleteUser_AlwaysTrue(db, id) ==
    LET result == dbDelete(db, id)
    IN [db |-> result.db, res |-> Return(<< >>, FALSE, TRUE, "")]

deleteUser(db, id) ==
    LET result == dbDelete(db, id)
    IN [db |-> result.db, res |-> Return(<< >>, FALSE, result.rowCount > 0, "")]

getUserById(db, id) ==
    LET result == dbSelectById(db.users, id)
    IN [db  |-> db,
        res |-> IF result = {} THEN Return(<< >>, TRUE, FALSE, "")
                ELSE Return(<<SafeUserOf(CHOOSE u \in result : TRUE)>>,
                            FALSE, FALSE, "")]

getUsersByRole(db, role) ==
    [db  |-> db,
     res |-> Return(RowsById({ SafeUserOf(u) : u \in dbSelectByRole(db.users, role) }),
                    FALSE, FALSE, "")]

\* The conditions getUsers pushes for a filter object; a missing filter, an
\* unset field and an empty search string push none.
MatchesFilter(u, hasFilter, filter) ==
    \/ ~hasFilter
    \/ /\ "role" \in DOMAIN filter => u.role = filter.role
       /\ "is_active" \in DOMAIN filter => u.is_active = filter.is_active
       /\ ("search" \in DOMAIN filter /\ filter.search # << >>) =>
             LET searchTerm == <<"%">> \o filter.search \o <<"%">>
             IN ilike(u.username, searchTerm) \/ ilike(u.email, searchTerm)

getUsers(db, hasFilter, filter) ==
    [db  |-> db,
     res |-> Return(RowsById({ SafeUserOf(u) :
                                 u \in { v \in db.users :
                                           MatchesFilter(v, hasFilter, filter) } }),
                    FALSE, FALSE, "")]

RECURSIVE seedLoop_NoCheck(_, _, _, _)
\* Variant of seedLoop: every demo user is inserted without looking for a
\* row with its email first.
seedLoop_NoCheck(db, t, i, createdUsers) ==
    IF i > Len(DEMO_USERS)
    THEN [db |-> db, res |-> Return(createdUsers, FALSE, FALSE, "")]
    ELSE LET demoUser == DEMO_USERS[i]
             result == dbInsert(db, t,
                           [username      |-> demoUser.username,
                            email         |-> demoUser.email,
                            password_hash |-> hashPassword(demoUser.password),
                            role          |-> demoUser.role])
         IN IF ~result.ok
            THEN [db |-> db, res |-> Throw("Conflict")]
            ELSE seedLoop_NoCheck(result.db, t, i + 1,
                                  Append(createdUsers, OmitPasswordHash(result.row)))

RECURSIVE seedLoop_ResetsExisting(_, _, _, _)
\* Variant of seedLoop: a row found with a demo email is given the demo
\* password and role again.
seedLoop_ResetsExisting(db, t, i, createdUsers) ==
    IF i > Len(DEMO_USERS)
    THEN [db |-> db, res |-> Return(createdUsers, FALSE, FALSE, "")]
    ELSE LET demoUser == DEMO_USERS[i]
             existingUser == dbSelectByEmail(db.users, demoUser.email)
         IN IF existingUser # {}
            THEN LET old == CHOOSE u \in existingUser : TRUE
                     new == [old EXCEPT
                               !.password_hash = hashPassword(demoUser.password),
                               !.role = demoUser.role,
                               !.updated_at = t]
                 IN seedLoop_ResetsExisting(
                        [db EXCEPT !.users = (db.users \ {old}) \cup {new}],
                        t, i + 1, Append(createdUsers, OmitPasswordHash(new)))
            ELSE LET result == dbInsert(db, t,
                                   [username      |-> demoUser.username,
                                    email         |-> demoUser.email,
                                    password_hash |-> hashPassword(demoUser.password),
                                    role          |-> demoUser.role])
                 IN IF ~result.ok
                    THEN [db |-> db, res |-> Throw("Conflict")]
                    ELSE seedLoop_ResetsExisting(result.db, t, i + 1,
                             Append(createdUsers, OmitPasswordHash(result.row)))

RECURSIVE seedLoop_OnlyCreated(_, _, _, _)
\* Variant of seedLoop: a demo user that is already stored is skipped and not
\* handed back.
seedLoop_OnlyCreated(db, t, i, createdUsers) ==
    IF i > Len(DEMO_USERS)
    THEN [db |-> db, res |-> Return(createdUsers, FALSE, FALSE, "")]
    ELSE LET demoUser == DEMO_USERS[i]
             existingUser == dbSelectByEmail(db.users, demoUser.email)
         IN IF existingUser # {}
            THEN seedLoop_OnlyCreated(db, t, i + 1, createdUsers)
            ELSE LET result == dbInsert(db, t,
                                   [username      |-> demoUser.username,
                                    email         |-> demoUser.email,
                                    password_hash |-> hashPassword(demoUser.password),
                                    role          |-> demoUser.role])
                 IN IF ~result.ok
                    THEN [db |-> db, res |-> Throw("Conflict")]
                    ELSE seedLoop_OnlyCreated(result.db, t, i + 1,
                             Append(createdUsers, OmitPasswordHash(result.row)))

RECURSIVE seedLoop(_, _, _, _)
\* The for loop of seedDemoUsers from the i-th demo user on.
seedLoop(db, t, i, createdUsers) ==
    IF i > Len(DEMO_USERS)
    THEN [db |-> db, res |-> Return(createdUsers, FALSE, FALSE, "")]
    ELSE LET demoUser == DEMO_USERS[i]
             existingUser == dbSelectByEmail(db.users, demoUser.email)
         IN IF existingUser # {}
            THEN seedLoop(db, t, i + 1,
                          Append(createdUsers,
                                 OmitPasswordHash(CHOOSE u \in existingUser : TRUE)))
            ELSE LET result == dbInsert(db, t,
                                   [username      |-> demoUser.username,
                                    email         |-> demoUser.email,
                                    password_hash |-> hashPassword(demoUser.password),
                                    role          |-> demoUser.role])
                 IN IF ~result.ok
                    THEN [db |-> db, res |-> Throw("Conflict")]
                    ELSE seedLoop(result.db, t, i + 1,
                                  Append(createdUsers, OmitPasswordHash(result.row)))

\* Variant of seedDemoUsers: the loop runs in a transaction that is rolled
\* back when an insert fails.
seedDemoUsers_Atomic(db, t) ==
    LET r == seedLoop(db, t, 1, << >>)
    IN IF r.res.out = "throw" THEN [db |-> db, res |-> r.res] ELSE r

seedDemoUsers(db, t) == seedLoop(db, t, 1, << >>)

getDemoUsers == DEMO_USERS

(* ------------------------------- state -------------------------------- *)
VARIABLES
    users,    \* the rows of the users table
    nextId,   \* the next value of the serial id column
    now,      \* the clock
    writes,   \* how many calls have changed the table so far
    last,     \* the latest call: operation, input, result
    seeds,    \* the seedDemoUsers calls made in a row: what the table held
              \* before the first of them, and their results (two at most)
    reqs      \* the calls the server runs at the same time, each with the
              \* statement it runs next

vars == <<users, nextId, now, writes, last, seeds, reqs>>

DemoEmails == { DEMO_USERS[i].email : i \in DOMAIN DEMO_USERS }

DemoUsernames == { DEMO_USERS[i].username : i \in DOMAIN DEMO_USERS }

DB == [users |-> users, nextId |-> nextId]

\* no call in progress: the latest result has been sent to the client
NoCall == [op |-> "none", arg |-> << >>, res |-> Return(<< >>, FALSE, FALSE, "")]

\* no seedDemoUsers call was the latest call
NoSeeds == [emailsFree |-> FALSE, namesFree |-> FALSE, results |-> << >>]

\* seeds after one more call of op with result res
SeedsAfter(op, res) ==
    IF op # "seedDemoUsers" THEN NoSeeds
    ELSE IF Len(seeds.results) = 1
         THEN [seeds EXCEPT !.results = Append(@, res)]
         ELSE [emailsFree |-> \A u \in users : u.email \notin DemoEmails,
               namesFree  |-> \A u \in users : u.username \notin DemoUsernames,
               results    |-> <<res>>]

Init ==
    /\ users = {}
    /\ nextId = 1
    /\ now = 0
    /\ writes = 0
    /\ last = NoCall
    /\ seeds = NoSeeds
    /\ reqs = << >>

\* A call whose handler yields [db, res], made when no other call is in
\* progress.
Call(op, arg, handled) ==
    /\ last.op = "none"
    /\ \E r \in {handled} :
        /\ r.db.nextId <= MaxId + 1
        /\ writes' = IF r.db = DB THEN writes ELSE writes + 1
        /\ writes' <= MaxWrites
        /\ users' = r.db.users
        /\ nextId' = r.db.nextId
        /\ last' = [op |-> op, arg |-> arg, res |-> r.res]
        /\ seeds' = SeedsAfter(op, r.res)
    /\ UNCHANGED <<now, reqs>>

CreateInputs ==
    [username : Usernames, email : CreateEmails, password : CreatePasswords,
     role : CreateRoles]

CreateUser ==
    \E input \in CreateInputs, salt \in Salts :
        Call("createUser", input, createUser(DB, now, salt, input))

\* updateUser inputs: an id and any subset of the optional fields.
UpdateUser ==
    \E id \in Ids, present \in SUBSET {"username", "email", "password", "role", "is_active"} :
    \E un \in IF "username" \in present THEN UpdateUsernames ELSE { << >> },
       em \in IF "email" \in present THEN UpdateEmails ELSE { << >> },
       pw \in IF "password" \in present THEN UpdatePasswords ELSE { "" },
       ro \in IF "role" \in present THEN UpdateRoles ELSE { "" },
       ac \in IF "is_active" \in present THEN BOOLEAN ELSE { FALSE },
       salt \in Salts :
        LET input == Restrict([id |-> id, username |-> un, email |-> em,
                               password |-> pw, role |-> ro, is_active |-> ac],
                              {"id"} \cup present)
        IN Call("updateUser", input, updateUser(DB, now, salt, input))

DeleteUser ==
    \E id \in Ids :
        Call("deleteUser", id, deleteUser(DB, id))

GetUserById ==
    \E id \in Ids :
        Call("getUserById", id, getUserById(DB, id))

GetUsersByRole ==
    \E role \in userRoleSchema :
        Call("getUsersByRole", role, getUsersByRole(DB, role))

GetUsers ==
    \E hasFilter \in BOOLEAN, present \in SUBSET {"role", "is_active", "search"} :
    \E ro \in IF "role" \in present THEN userRoleSchema ELSE { "" },
       ac \in IF "is_active" \in present THEN BOOLEAN ELSE { FALSE },
       se \in IF "search" \in present THEN Searches ELSE { << >> } :
        /\ ~hasFilter => present = {}
        /\ LET filter == Restrict([role |-> ro, is_active |-> ac, search |-> se],
                                  present)
           IN Call("getUsers", [hasFilter |-> hasFilter, filter |-> filter],
                   getUsers(DB, hasFilter, filter))

Login ==
    \E email \in Emails, password \in LoginPasswords,
       fault \in {"none", "select", "verify"} :
        LET input == [email |-> email, password |-> password]
        IN Call("login", [input |-> input, fault |-> fault],
                loginUser(DB, input, fault))

SeedDemoUsers ==
    Call("seedDemoUsers", << >>, seedDemoUsers(DB, now))

\* The transport sends the result of the call to the client.
Reply ==
    /\ last.op # "none"
    /\ last' = NoCall
    /\ UNCHANGED <<users, nextId, now, writes, seeds, reqs>>

\* Time passes between calls.
Tick ==
    /\ last.op = "none"
    /\ now < MaxTime
    /\ now' = now + 1
    /\ UNCHANGED <<users, nextId, writes, last, seeds, reqs>>

Next ==
    \/ Reply
    \/ Tick
    \/ CreateUser
    \/ UpdateUser
    \/ DeleteUser
    \/ GetUserById
    \/ GetUsersByRole
    \/ GetUsers
    \/ Login
    \/ SeedDemoUsers

Spec == Init /\ [][Next]_vars

(* ------------------- switching accounts off and on -------------------- *)
\* The service with the calls that matter for an account's is_active flag:
\* accounts are made by createUser or seedDemoUsers, switched off and on by
\* updateUser, and logged into.

\* calls of such a run that change the table
MaxActiveWrites == 3

\* A call like Call, in a run that may change the table budget times.
CallWithin(budget, op, arg, handled) ==
    /\ last.op = "none"
    /\ \E r \in {handled} :
        /\ r.db.nextId <= MaxId + 1
        /\ writes' = IF r.db = DB THEN writes ELSE writes + 1
        /\ writes' <= budget
        /\ users' = r.db.users
        /\ nextId' = r.db.nextId
        /\ last' = [op |-> op, arg |-> arg, res |-> r.res]
        /\ seeds' = SeedsAfter(op, r.res)
    /\ UNCHANGED <<now, reqs>>

CreateAccount ==
    \E input \in { x \in CreateInputs : x.role = "user" }, salt \in Salts :
        CallWithin(MaxActiveWrites, "createUser", input,
                   createUser(DB, now, salt, input))

SeedAccounts ==
    CallWithin(MaxActiveWrites, "seedDemoUsers", << >>, seedDemoUsers(DB, now))

SetActive ==
    \E id \in Ids, ac \in BOOLEAN, salt \in Salts :
        LET input == [id |-> id, is_active |-> ac]
        IN CallWithin(MaxActiveWrites, "updateUser", input,
                      updateUser(DB, now, salt, input))

LoginAccount ==
    \E email \in Emails, password \in LoginPasswords,
       fault \in {"none", "verify"} :
        LET input == [email |-> email, password |-> password]
        IN CallWithin(MaxActiveWrites, "login", [input |-> input, fault |-> fault],
                      loginUser(DB, input, fault))

NextActive ==
    \/ Reply
    \/ CreateAccount
    \/ SeedAccounts
    \/ SetActive
    \/ LoginAccount

SpecActive == Init /\ [][NextActive]_vars

(* ------------------------- calls that overlap -------------------------- *)
\* The server takes a new call while others wait for the database; each
\* statement sent to the database runs on its own, and the statements of
\* different calls come in any order.

\* calls a run takes
MaxRequests == 3

\* a call that has just arrived, about to run the statement pc
NewRequest(op, arg, pc) ==
    [op |-> op, arg |-> arg, pc |-> pc, i |-> 1, createdUsers |-> << >>,
     existingUser |-> {}, res |-> NoCall.res]

Finished(req, res) == [req EXCEPT !.pc = "done", !.res = res]

\* seedDemoUsers after it has pushed safeUser for the i-th demo user: the
\* loop goes on with the next demo user or the call returns.
seedPush(req, safeUser) ==
    LET createdUsers == Append(req.createdUsers, safeUser)
    IN IF req.i = Len(DEMO_USERS)
       THEN Finished([req EXCEPT !.createdUsers = createdUsers],
                     Return(createdUsers, FALSE, FALSE, ""))
       ELSE [req EXCEPT !.i = @ + 1, !.pc = "select",
                        !.createdUsers = createdUsers]

\* seedDemoUsers: the select for the i-th demo user and what follows it up
\* to the next statement.
seedSelect(db, req) ==
    LET demoUser == DEMO_USERS[req.i]
        existingUser == dbSelectByEmail(db.users, demoUser.email)
    IN IF existingUser # {}
       THEN seedPush(req, OmitPasswordHash(CHOOSE u \in existingUser : TRUE))
       ELSE [req EXCEPT !.pc = "insert"]

\* seedDemoUsers: the insert of the i-th demo user and what follows it.
seedInsert(db, t, req) ==
    LET demoUser == DEMO_USERS[req.i]
        result == dbInsert(db, t,
                      [username      |-> demoUser.username,
                       email         |-> demoUser.email,
                       password_hash |-> hashPassword(demoUser.password),
                       role          |-> demoUser.role])
    IN IF ~result.ok
       THEN [db |-> db, req |-> Finished(req, Throw("Conflict"))]
       ELSE [db  |-> result.db,
             req |-> seedPush(req, OmitPasswordHash(result.row))]

\* A statement of the k-th call that leaves the table as db and the call
\* as req.
Statement(k, db, req) ==
    /\ db.nextId <= MaxId + 1
    /\ users' = db.users
    /\ nextId' = db.nextId
    /\ reqs' = [reqs EXCEPT ![k] = req]
    /\ UNCHANGED <<now, writes, last, seeds>>

Arrive(req) ==
    /\ Len(reqs) < MaxRequests
    /\ reqs' = Append(reqs, req)
    /\ UNCHANGED <<users, nextId, now, writes, last, seeds>>

ArriveCreateUser ==
    \E input \in { x \in CreateInputs : x.role = "user" } :
        Arrive(NewRequest("createUser", input, "insert"))

ArriveSeedDemoUsers == Arrive(NewRequest("seedDemoUsers", << >>, "select"))

\* createUser hashes the password and runs its one statement, the insert.
CreateUserInsert ==
    \E k \in DOMAIN reqs, salt \in Salts :
        /\ reqs[k].op = "createUser"
        /\ reqs[k].pc = "insert"
        /\ \E r \in { createUser(DB, now, salt, reqs[k].arg) } :
              Statement(k, r.db, Finished(reqs[k], r.res))

SeedSelect ==
    \E k \in DOMAIN reqs :
        /\ reqs[k].op = "seedDemoUsers"
        /\ reqs[k].pc = "select"
        /\ Statement(k, DB, seedSelect(DB, reqs[k]))

SeedInsert ==
    \E k \in DOMAIN reqs :
        /\ reqs[k].op = "seedDemoUsers"
        /\ reqs[k].pc = "insert"
        /\ \E r \in { seedInsert(DB, now, reqs[k]) } :
              Statement(k, r.db, r.req)

\* updateUser: the lookup by id and what follows it up to the next statement.
updateSelect(db, req) ==
    LET existingUser == dbSelectById(db.users, req.arg.id)
    IN IF existingUser = {}
       THEN Finished(req, Return(<< >>, TRUE, FALSE, ""))
       ELSE [req EXCEPT !.pc = "update", !.existingUser = existingUser]

\* Variant of updateStatement: the row read by the lookup is written back
\* with the supplied fields laid over it, and put back when it is gone.
updateStatement_WritesBack(db, t, salt, req) ==
    LET old    == CHOOSE u \in req.existingUser : TRUE
        values == updateValues(t, salt, req.arg)
        new    == [f \in UserFields |->
                     IF f \in DOMAIN values THEN values[f] ELSE old[f]]
        others == { u \in db.users : u.id # old.id }
    IN [db  |-> [db EXCEPT !.users = others \cup {new}],
        req |-> Finished(req, Return(<<SafeUserOf(new)>>, FALSE, FALSE, ""))]

\* Variant of updateStatement: when the update finds no row, the row read by
\* the lookup is put back with the supplied fields laid over it.
updateStatement_Upsert(db, t, salt, req) ==
    LET values == updateValues(t, salt, req.arg)
        result == dbUpdate(db, req.arg.id, values)
        old    == CHOOSE u \in req.existingUser : TRUE
        new    == [f \in UserFields |->
                     IF f \in DOMAIN values THEN values[f] ELSE old[f]]
    IN IF ~result.ok
       THEN [db |-> db, req |-> Finished(req, Throw("Conflict"))]
       ELSE IF result.rows = {}
            THEN [db  |-> [db EXCEPT !.users = @ \cup {new}],
                  req |-> Finished(req, Return(<<SafeUserOf(new)>>, FALSE, FALSE, ""))]
            ELSE [db  |-> result.db,
                  req |-> Finished(req,
                              Return(<<SafeUserOf(CHOOSE u \in result.rows : TRUE)>>,
                                     FALSE, FALSE, ""))]

\* updateUser: the update statement and what follows it.
updateStatement(db, t, salt, req) ==
    LET result == dbUpdate(db, req.arg.id, updateValues(t, salt, req.arg))
    IN IF ~result.ok
       THEN [db |-> db, req |-> Finished(req, Throw("Conflict"))]
       ELSE IF result.rows = {}
            THEN [db  |-> result.db,
                  req |-> Finished(req, Return(<< >>, TRUE, FALSE, ""))]
            ELSE [db  |-> result.db,
                  req |-> Finished(req,
                              Return(<<SafeUserOf(CHOOSE u \in result.rows : TRUE)>>,
                                     FALSE, FALSE, ""))]

\* updateUser inputs of overlapping calls: one field, or role and is_active,
\* for the row with id 1.
ConcUpdateInputs ==
    { [id |-> 1, username |-> un] : un \in UpdateUsernames } \cup
    { [id |-> 1, email |-> em] : em \in UpdateEmails } \cup
    { [id |-> 1, role |-> ro, is_active |-> FALSE] : ro \in UpdateRoles }

ArriveUpdateUser ==
    \E input \in ConcUpdateInputs :
        Arrive(NewRequest("updateUser", input, "select"))

ArriveDeleteUser ==
    \E id \in 1..2 : Arrive(NewRequest("deleteUser", id, "delete"))

UpdateSelect ==
    \E k \in DOMAIN reqs :
        /\ reqs[k].op = "updateUser"
        /\ reqs[k].pc = "select"
        /\ Statement(k, DB, updateSelect(DB, reqs[k]))

UpdateStatement ==
    \E k \in DOMAIN reqs, salt \in Salts :
        /\ reqs[k].op = "updateUser"
        /\ reqs[k].pc = "update"
        /\ \E r \in { updateStatement(DB, now, salt, reqs[k]) } :
              Statement(k, r.db, r.req)

\* deleteUser runs its one statement, the delete.
DeleteStatement ==
    \E k \in DOMAIN reqs :
        /\ reqs[k].op = "deleteUser"
        /\ reqs[k].pc = "delete"
        /\ \E r \in { deleteUser(DB, reqs[k].arg) } :
              Statement(k, r.db, Finished(reqs[k], r.res))

NextConc ==
    \/ ArriveCreateUser
    \/ ArriveSeedDemoUsers
    \/ ArriveUpdateUser
    \/ ArriveDeleteUser
    \/ CreateUserInsert
    \/ SeedSelect
    \/ SeedInsert
    \/ UpdateSelect
    \/ UpdateStatement
    \/ DeleteStatement

SpecConc == Init /\ [][NextConc]_vars

(* ======================= properties of the service ==================== *)
\* A step that is a call of operation op.
CallOf(op) == last.op = "none" /\ last'.op = op

ReturnsUsers == {"createUser", "getUsers", "getUserById", "getUsersByRole",
                 "updateUser", "login", "seedDemoUsers"}

\* C1: in every reachable state, whatever calls succeeded or failed before,
\* no two stored rows share a username and no two share an email.
C1_UniqueUsernameAndEmail ==
    \A u \in users : \A v \in users :
        u # v => (u.username # v.username /\ u.email # v.email)

\* C1 witness: a write was refused with a conflict while two rows are stored.
C1_Witness ==
    /\ last.op \in {"createUser", "updateUser", "seedDemoUsers"}
    /\ last.res.out = "throw"
    /\ Cardinality(users) >= 2

\* C2: every user object a call returns has exactly the seven safe fields
\* (so no password_hash), each equal to that field of the stored row with
\* the same id.
C2_ReturnedUsersAreSafe ==
    (last.op \in ReturnsUsers /\ last.res.out = "return") =>
        \A i \in DOMAIN last.res.users :
            LET x == last.res.users[i]
            IN /\ DOMAIN x = SafeFields
               /\ \E u \in users :
                     u.id = x.id /\ \A f \in SafeFields : x[f] = u[f]

\* C2 witness: getUsers has returned two users.
C2_Witness ==
    /\ last.op = "getUsers"
    /\ Len(last.res.users) >= 2

\* C3 (as claimed): a login without an unexpected failure, with the email of
\* a stored active row and the password its digest was produced from,
\* returns success, "Login successful" and the safe projection of the row.
C3_LoginWithCorrectPasswordSucceeds ==
    [][ (CallOf("login") /\ last'.arg.fault = "none") =>
          \A u \in users :
              ( /\ u.email = last'.arg.input.email
                /\ u.is_active
                /\ u.password_hash.pw = last'.arg.input.password )
              => last'.res = Return(<<SafeUserOf(u)>>, FALSE, TRUE, "Login successful")
      ]_vars

\* C4: a login whose lookup did not fail, with the email of a stored row that
\* is not active, returns "Account is deactivated" without a user, whatever
\* the password and whether or not verification would have worked.
C4_InactiveIsRefusedBeforeVerify ==
    [][ (CallOf("login") /\ last'.arg.fault # "select") =>
          \A u \in users :
              (u.email = last'.arg.input.email /\ ~u.is_active)
              => last'.res = Return(<< >>, FALSE, FALSE, "Account is deactivated")
      ]_vars

\* C4 witness: a login with the right password of a deactivated row was
\* answered "Account is deactivated".
C4_Witness ==
    /\ last.op = "login"
    /\ last.res.message = "Account is deactivated"
    /\ \E u \in users :
          /\ u.email = last.arg.input.email
          /\ ~u.is_active
          /\ u.password_hash.pw = last.arg.input.password

\* C5 (as claimed): without an unexpected failure, a login with an email no
\* row holds and a login with the email of an active row and a password its
\* digest was not produced from both return exactly
\* {success: false, message: "Invalid email or password"}.
C5_UnknownEmailAndWrongPasswordAlike ==
    [][ (CallOf("login") /\ last'.arg.fault = "none") =>
          /\ (\A u \in users : u.email # last'.arg.input.email)
                => last'.res = InvalidCredentials
          /\ \A u \in users :
                ( /\ u.email = last'.arg.input.email
                  /\ u.is_active
                  /\ u.password_hash.pw # last'.arg.input.password )
                => last'.res = InvalidCredentials
      ]_vars

\* C6: every login call returns one result object and raises nothing; when the
\* lookup fails, or the verification of an active row's password fails, the
\* result is {success: false, message: "Login failed due to server error"}.
C6_LoginNeverRaises ==
    [][ CallOf("login") =>
          /\ last'.res.out = "return"
          /\ last'.res.message \in LoginMessages
          /\ last'.res.flag <=> last'.res.message = "Login successful"
          /\ last'.arg.fault = "select" => last'.res = ServerError
          /\ ( /\ last'.arg.fault = "verify"
               /\ \E u \in users : u.email = last'.arg.input.email /\ u.is_active )
             => last'.res = ServerError
      ]_vars

\* C6 witness: the verification of an active row's password failed and the
\* call returned the server-error result.
C6_Witness ==
    /\ last.op = "login"
    /\ last.arg.fault = "verify"
    /\ last.res = ServerError
    /\ \E u \in users : u.email = last.arg.input.email /\ u.is_active

\* C7: a login call, whatever its outcome, leaves every row and the id
\* sequence as they were.
C7_LoginLeavesStore ==
    [][ CallOf("login") => (users' = users /\ nextId' = nextId) ]_vars

\* C7 witness: a login against a non-empty table was refused for its
\* credentials.
C7_Witness ==
    /\ last.op = "login"
    /\ last.res = InvalidCredentials
    /\ \E u \in users : u.email = last.arg.input.email /\ u.is_active

\* C8: createUser with a username and an email no row holds adds exactly one
\* row and returns its safe projection, with the input's username, email and
\* role, is_active true and created_at = updated_at = the time of the call.
C8_CreateStoresOneRow ==
    [][ ( /\ CallOf("createUser")
          /\ \A u \in users : u.username # last'.arg.username
                              /\ u.email # last'.arg.email )
        => /\ last'.res.out = "return"
           /\ Len(last'.res.users) = 1
           /\ \E row \in users' :
                 /\ row \notin users
                 /\ users' = users \cup {row}
                 /\ \A u \in users : u.id # row.id
                 /\ last'.res.users[1] = Restrict(row, SafeFields)
                 /\ row.username = last'.arg.username
                 /\ row.email = last'.arg.email
                 /\ row.role = last'.arg.role
                 /\ row.is_active = TRUE
                 /\ row.created_at = now
                 /\ row.updated_at = now
      ]_vars

\* C8 witness: createUser has added an admin to a table that held a row.
C8_Witness ==
    /\ last.op = "createUser"
    /\ last.res.out = "return"
    /\ last.arg.role = "admin"
    /\ Cardinality(users) = 2

\* C9: createUser with an email some row holds under another username, or a
\* username some row holds under another email, raises Conflict and leaves the
\* rows as they were.
C9_CreateConflict ==
    [][ ( /\ CallOf("createUser")
          /\ \E u \in users :
                \/ u.email = last'.arg.email /\ u.username # last'.arg.username
                \/ u.username = last'.arg.username /\ u.email # last'.arg.email )
        => /\ last'.res = Throw("Conflict")
           /\ users' = users
      ]_vars

\* C9 witness: createUser was refused for a username held under another
\* email.
C9_Witness ==
    /\ last.op = "createUser"
    /\ last.res.out = "throw"
    /\ \E u \in users : u.username = last.arg.username /\ u.email # last.arg.email

\* C10: updateUser with an id no row has returns null and leaves the rows as
\* they were, whichever optional fields the input carries.
C10_UpdateMissingIsNull ==
    [][ ( /\ CallOf("updateUser")
          /\ \A u \in users : u.id # last'.arg.id )
        => /\ last'.res = Return(<< >>, TRUE, FALSE, "")
           /\ users' = users
      ]_vars

\* C10 witness: updateUser with all five optional fields and an unknown id
\* returned null on a non-empty table.
C10_Witness ==
    /\ last.op = "updateUser"
    /\ last.res.isNull
    /\ users # {}
    /\ DOMAIN last.arg = {"id", "username", "email", "password", "role", "is_active"}

\* the stored row with this id (there is one)
RowOf(rows, id) == CHOOSE u \in rows : u.id = id

\* the fields of a stored row that an updateUser input names
SuppliedFields(input) ==
    (DOMAIN input \cap {"username", "email", "role", "is_active"}) \cup
    (IF "password" \in DOMAIN input THEN {"password_hash"} ELSE {})

\* C11: a successful updateUser changes exactly the fields its input carries
\* (password_hash when a password is given) and updated_at, which moves
\* strictly forward; the other fields, created_at and every other row are
\* left as they were.
C11_UpdateChangesSuppliedFieldsOnly ==
    [][ ( /\ CallOf("updateUser")
          /\ last'.res.out = "return"
          /\ ~last'.res.isNull )
        => LET input == last'.arg
               old   == RowOf(users, input.id)
               new   == RowOf(users', input.id)
           IN /\ \A f \in DOMAIN input \cap {"username", "email", "role", "is_active"} :
                     new[f] = input[f]
              /\ "password" \in DOMAIN input =>
                     \E salt \in Salts :
                         new.password_hash = BunPasswordHash(input.password, salt)
              /\ new.updated_at > old.updated_at
              /\ \A f \in UserFields \ (SuppliedFields(input) \cup {"updated_at"}) :
                     new[f] = old[f]
              /\ users' \ {new} = users \ {old}
      ]_vars

\* C12: updateUser on an existing row fails with a conflict exactly when a
\* username or email it supplies is held by a different row; a refused update
\* leaves every row, the target and its updated_at included, as it was;
\* supplying the target's own current username or email is no conflict.
C12_UpdateConflict ==
    [][ ( /\ CallOf("updateUser")
          /\ \E u \in users : u.id = last'.arg.id )
        => /\ last'.res.out = "throw" <=>
                 \E v \in users :
                     /\ v.id # last'.arg.id
                     /\ \/ /\ "username" \in DOMAIN last'.arg
                           /\ v.username = last'.arg.username
                        \/ /\ "email" \in DOMAIN last'.arg
                           /\ v.email = last'.arg.email
           /\ last'.res.out = "throw" =>
                 /\ last'.res = Throw("Conflict")
                 /\ users' = users
           /\ last'.res.out = "return" => ~last'.res.isNull
      ]_vars

\* C12 witness: an update that supplied an email was refused with a conflict
\* while two rows are stored and time has passed since they were written.
C12_Witness ==
    /\ last.op = "updateUser"
    /\ last.res = Throw("Conflict")
    /\ "email" \in DOMAIN last.arg
    /\ Cardinality(users) = 2
    /\ \A u \in users : u.updated_at < now

\* C13: deleteUser(id) returns true exactly when a row with that id was
\* stored and false otherwise; right after it returned true, getUserById(id)
\* returns null and a second deleteUser(id) returns false.
C13_DeleteReportsExistence ==
    [][ CallOf("deleteUser")
        => LET id    == last'.arg
               after == [users |-> users', nextId |-> nextId']
           IN /\ last'.res =
                    Return(<< >>, FALSE, \E u \in users : u.id = id, "")
              /\ last'.res.flag =>
                    /\ getUserById(after, id).res = Return(<< >>, TRUE, FALSE, "")
                    /\ deleteUser(after, id).res = Return(<< >>, FALSE, FALSE, "")
      ]_vars

\* C13 witness: deleteUser returned false for an id that a row once had,
\* while another row is stored.
C13_Witness ==
    /\ last.op = "deleteUser"
    /\ ~last.res.flag
    /\ last.arg < nextId
    /\ users # {}

BothSeedsAgree ==
    /\ \A k \in 1..2 : seeds.results[k].out = "return"
    /\ Cardinality({ u \in users : u.email \in DemoEmails }) = 3
    /\ \A e \in DemoEmails :
          \E i \in DOMAIN seeds.results[1].users :
          \E j \in DOMAIN seeds.results[2].users :
              /\ seeds.results[1].users[i].email = e
              /\ seeds.results[2].users[j].email = e
              /\ seeds.results[1].users[i].id = seeds.results[2].users[j].id

\* C15 as stated: after two seedDemoUsers calls in a row on a table that held
\* no row with a demo email before the first, three rows hold demo emails and
\* for each demo email both calls returned a user with the same id.
C15_SeedTwiceFromNoDemoEmails ==
    (Len(seeds.results) = 2 /\ seeds.emailsFree) => BothSeedsAgree

\* C15, amended: the same, on a table that held no row with a demo email and
\* no row with a demo username before the first call.
C15_SeedTwiceFromNoDemoEmailsAndNames ==
    (Len(seeds.results) = 2 /\ seeds.emailsFree /\ seeds.namesFree)
        => BothSeedsAgree

\* C15 witness: seedDemoUsers was called twice in a row on a table that held
\* one row, with neither a demo email nor a demo username, before the first.
C15_Witness ==
    /\ Len(seeds.results) = 2
    /\ seeds.emailsFree
    /\ seeds.namesFree
    /\ Cardinality(users) = 4

\* C16: a row that holds a demo email when seedDemoUsers is called is left
\* unchanged in every field, and a call that returns hands back, at the place
\* of that demo user, the seven safe fields of the row as stored.
C16_SeedKeepsExistingDemoRows ==
    [][ CallOf("seedDemoUsers")
        => \A u \in users : \A i \in DOMAIN DEMO_USERS :
              u.email = DEMO_USERS[i].email
              => /\ u \in users'
                 /\ last'.res.out = "return" =>
                       last'.res.users[i] = Restrict(u, SafeFields)
      ]_vars

\* C16 witness: seedDemoUsers returned on a table where the row with
\* admin@demo.com was made by createUser, with a username and a password
\* digest that are not the demo ones.
C16_Witness ==
    /\ last.op = "seedDemoUsers"
    /\ last.res.out = "return"
    /\ \E u \in users :
          /\ u.email = DEMO_USERS[1].email
          /\ u.username # DEMO_USERS[1].username
          /\ u.password_hash.alg = "argon2id"
          /\ last.res.users[1].username = u.username

\* the latest call returned three user objects, the i-th with the seven safe
\* fields of the stored row that holds the i-th demo email
ThreeDemoUsersInOrder ==
    /\ last'.res.out = "return"
    /\ Len(last'.res.users) = Len(DEMO_USERS)
    /\ \A i \in DOMAIN DEMO_USERS :
          /\ DOMAIN last'.res.users[i] = SafeFields
          /\ last'.res.users[i].email = DEMO_USERS[i].email
          /\ \E u \in users' :
                /\ u.email = DEMO_USERS[i].email
                /\ Restrict(u, SafeFields) = last'.res.users[i]

\* C17 as stated: from every reachable table, seedDemoUsers returns three safe
\* user objects in the order admin@demo.com, reseller@demo.com, user@demo.com
\* and afterwards a row is stored for each demo email.
C17_SeedReturnsThreeInOrder ==
    [][ CallOf("seedDemoUsers") => ThreeDemoUsersInOrder ]_vars

\* C17, amended: the same, from every reachable table in which no row holds
\* the username of a demo user whose email no row holds.
C17_SeedReturnsThreeInOrderWhenNamesFree ==
    [][ ( /\ CallOf("seedDemoUsers")
          /\ \A i \in DOMAIN DEMO_USERS :
                (\A u \in users : u.email # DEMO_USERS[i].email)
                => (\A u \in users : u.username # DEMO_USERS[i].username) )
        => ThreeDemoUsersInOrder
      ]_vars

\* C17 witness: seedDemoUsers returned on a table that already held the row
\* with admin@demo.com and put the two other demo rows next to it.
C17_Witness ==
    /\ last.op = "seedDemoUsers"
    /\ last.res.out = "return"
    /\ Cardinality(users) = 3
    /\ \E u \in users : u.email = DEMO_USERS[1].email /\ u.id = 1
    /\ \E u \in users : u.email = DEMO_USERS[2].email /\ u.id = 2
    /\ last.res.users[1].username # DEMO_USERS[1].username

\* C18: getUsers(filter) returns exactly the rows that satisfy every field the
\* filter carries: role equal, is_active equal, and username or email
\* containing filter.search as a literal substring, letter case ignored; with
\* no filter, or a filter with no field, it returns every row.
C18_GetUsersFiltersLiterally ==
    [][ CallOf("getUsers")
        => LET filter == last'.arg.filter
               Contains(s, sub) ==
                   \E k \in 0..(Len(s) - Len(sub)) :
                       \A j \in 1..Len(sub) : Lower(s[k + j]) = Lower(sub[j])
               Satisfies(u) ==
                   \/ ~last'.arg.hasFilter
                   \/ /\ "role" \in DOMAIN filter => u.role = filter.role
                      /\ "is_active" \in DOMAIN filter =>
                            u.is_active = filter.is_active
                      /\ "search" \in DOMAIN filter =>
                            \/ Contains(u.username, filter.search)
                            \/ Contains(u.email, filter.search)
           IN /\ last'.res.out = "return"
              /\ { last'.res.users[i] : i \in DOMAIN last'.res.users }
                    = { Restrict(u, SafeFields) : u \in { v \in users : Satisfies(v) } }
      ]_vars

(* =================== properties of overlapping calls ================== *)
\* C19: of two createUser calls that overlap, with the same email and
\* different usernames that no other call and no earlier row uses, in every
\* order of their statements one returns the new user and the other fails
\* with a conflict, and one row holds that email.
C19_ConcurrentCreateSameEmail ==
    \A a \in DOMAIN reqs : \A b \in DOMAIN reqs :
        ( /\ a # b
          /\ reqs[a].op = "createUser" /\ reqs[a].pc = "done"
          /\ reqs[b].op = "createUser" /\ reqs[b].pc = "done"
          /\ reqs[a].arg.email = reqs[b].arg.email
          /\ reqs[a].arg.username # reqs[b].arg.username
          /\ \A c \in DOMAIN reqs \ {a, b} :
                IF reqs[c].op = "createUser"
                THEN /\ reqs[c].arg.email # reqs[a].arg.email
                     /\ reqs[c].arg.username \notin
                            {reqs[a].arg.username, reqs[b].arg.username}
                ELSE /\ reqs[c].op = "seedDemoUsers"
                     /\ reqs[a].arg.email \notin DemoEmails
                     /\ reqs[a].arg.username \notin DemoUsernames
                     /\ reqs[b].arg.username \notin DemoUsernames )
        => /\ \/ reqs[a].res.out = "return" /\ reqs[b].res = Throw("Conflict")
              \/ reqs[b].res.out = "return" /\ reqs[a].res = Throw("Conflict")
           /\ Cardinality({ u \in users : u.email = reqs[a].arg.email }) = 1

\* C19 witness: the createUser call that arrived second ran its insert first
\* and returned, and the call that arrived first, with the same email and
\* another username, failed with a conflict.
C19_Witness ==
    /\ Len(reqs) = 2
    /\ reqs[1].op = "createUser" /\ reqs[2].op = "createUser"
    /\ reqs[1].arg.email = reqs[2].arg.email
    /\ reqs[1].arg.username # reqs[2].arg.username
    /\ reqs[1].res = Throw("Conflict")
    /\ reqs[2].pc = "done" /\ reqs[2].res.out = "return"

\* C20: while seedDemoUsers calls overlap on a table that held no demo user,
\* the select of one and the insert of another can come in an order that
\* makes a call fail with a conflict, and no call fails in another way; at
\* no time do two rows hold the same demo email.
C20_ConcurrentSeedOneRowPerEmail ==
    /\ \A e \in DemoEmails : Cardinality({ u \in users : u.email = e }) <= 1
    /\ \A k \in DOMAIN reqs :
          (reqs[k].op = "seedDemoUsers" /\ reqs[k].res.out = "throw")
              => reqs[k].res = Throw("Conflict")

\* C20 witness: two seedDemoUsers calls, and no other call, ran on the empty
\* table; one failed with a conflict, the other returned the three demo users.
C20_Witness ==
    /\ Len(reqs) = 2
    /\ reqs[1].op = "seedDemoUsers" /\ reqs[2].op = "seedDemoUsers"
    /\ \E k \in 1..2 :
          /\ reqs[k].res = Throw("Conflict")
          /\ reqs[3 - k].pc = "done"
          /\ reqs[3 - k].res.out = "return"
          /\ Len(reqs[3 - k].res.users) = 3
    /\ Cardinality(users) = 3

(* ================== properties of passwords and logins ================ *)
\* C21: for an active row whose stored digest is the one createUser made from
\* password p, a login without an unexpected failure with the row's email
\* and p succeeds with the row's safe fields, and with any other password
\* returns "Invalid email or password".
C21_CreatedDigestVerifiesOnlyItsPassword ==
    [][ (CallOf("login") /\ last'.arg.fault = "none") =>
          \A u \in users : \A p \in CreatePasswords : \A salt \in Salts :
              ( /\ u.email = last'.arg.input.email
                /\ u.is_active
                /\ u.password_hash = BunPasswordHash(p, salt) )
              => last'.res =
                    IF last'.arg.input.password = p
                    THEN Return(<<SafeUserOf(u)>>, FALSE, TRUE, "Login successful")
                    ELSE InvalidCredentials
      ]_vars

\* C21 witness: a login with another password for an active row that
\* createUser stored was answered "Invalid email or password" while two rows
\* are stored.
C21_Witness ==
    /\ last.op = "login"
    /\ last.arg.fault = "none"
    /\ last.res = InvalidCredentials
    /\ Cardinality(users) = 2
    /\ \E u \in users : \E p \in CreatePasswords : \E salt \in Salts :
          /\ u.email = last.arg.input.email
          /\ u.is_active
          /\ u.password_hash = BunPasswordHash(p, salt)
          /\ last.arg.input.password # p

\* C22: in every state reached through createUser, updateUser and
\* seedDemoUsers, no stored password_hash is the text of a password handed to
\* one of them, a demo user's password included: every stored value is a
\* digest made by one of the two hashers.
C22_NoPlaintextStored ==
    \A u \in users :
        /\ \A p \in CreatePasswords \cup UpdatePasswords
                    \cup { DEMO_USERS[i].password : i \in DOMAIN DEMO_USERS } :
              u.password_hash # [alg |-> "plain", pw |-> p, salt |-> 0]
        /\ \/ u.password_hash = hashPassword(u.password_hash.pw)
           \/ \E salt \in Salts :
                 u.password_hash = BunPasswordHash(u.password_hash.pw, salt)

\* C22 witness: rows written by seedDemoUsers are stored next to a row whose
\* password updateUser has set.
C22_Witness ==
    /\ \E u \in users : u.password_hash = hashPassword(DEMO_USERS[2].password)
    /\ \E u \in users : \E p \in UpdatePasswords : \E salt \in Salts :
          u.password_hash = BunPasswordHash(p, salt)
    /\ last.op = "updateUser"

\* C23: a login without an unexpected failure whose email no row holds
\* exactly, though a row holds it in another letter case, returns "Invalid
\* email or password", also with that row's password; getUsers with such a
\* text as search returns that row (when it passes the filter's other fields).
C23_LoginEmailCaseSensitiveSearchNot ==
    [][ LET SameButCase(a, b) ==
                /\ a # b
                /\ Len(a) = Len(b)
                /\ \A i \in DOMAIN a : Lower(a[i]) = Lower(b[i])
        IN /\ ( /\ CallOf("login")
                /\ last'.arg.fault = "none"
                /\ \A u \in users : u.email # last'.arg.input.email
                /\ \E u \in users : SameButCase(u.email, last'.arg.input.email) )
              => last'.res = InvalidCredentials
           /\ ( /\ CallOf("getUsers")
                /\ last'.arg.hasFilter
                /\ "search" \in DOMAIN last'.arg.filter )
              => \A u \in users :
                    ( /\ SameButCase(u.email, last'.arg.filter.search)
                      /\ "role" \in DOMAIN last'.arg.filter =>
                            u.role = last'.arg.filter.role
                      /\ "is_active" \in DOMAIN last'.arg.filter =>
                            u.is_active = last'.arg.filter.is_active )
                    => \E i \in DOMAIN last'.res.users :
                          last'.res.users[i] = Restrict(u, SafeFields)
      ]_vars

\* C23 witness: a login with the email of an active row in another letter
\* case and with that row's password was answered "Invalid email or password".
C23_Witness ==
    /\ last.op = "login"
    /\ last.arg.fault = "none"
    /\ last.res = InvalidCredentials
    /\ \A u \in users : u.email # last.arg.input.email
    /\ \E u \in users :
          /\ Len(u.email) = Len(last.arg.input.email)
          /\ \A i \in DOMAIN u.email :
                Lower(u.email[i]) = Lower(last.arg.input.email[i])
          /\ u.is_active
          /\ BunPasswordVerify(last.arg.input.password, u.password_hash) = "true"

\* C24: right after a successful updateUser that carried password p2, if the
\* row is active, a login with its email and p2 succeeds and a login with
\* any other password, the old one included, returns "Invalid email or
\* password"; a successful updateUser that carried no password leaves every
\* password accepted or refused by the stored digest as before.
C24_UpdatedPasswordReplacesOld ==
    [][ ( /\ CallOf("updateUser")
          /\ last'.res.out = "return"
          /\ ~last'.res.isNull )
        => LET input == last'.arg
               old   == RowOf(users, input.id)
               new   == RowOf(users', input.id)
               after == [users |-> users', nextId |-> nextId']
               login(p) == loginUser(after, [email |-> new.email, password |-> p],
                                     "none").res
           IN IF "password" \in DOMAIN input
              THEN new.is_active =>
                     /\ login(input.password) =
                           Return(<<SafeUserOf(new)>>, FALSE, TRUE, "Login successful")
                     /\ \A p \in (LoginPasswords \cup {old.password_hash.pw})
                                   \ {input.password} :
                           login(p) = InvalidCredentials
              ELSE \A p \in LoginPasswords :
                     BunPasswordVerify(p, new.password_hash)
                        = BunPasswordVerify(p, old.password_hash)
      ]_vars

\* C24 witness: updateUser set a new password, and nothing else, on an active
\* row that createUser had stored with another password.
C24_Witness ==
    /\ last.op = "updateUser"
    /\ DOMAIN last.arg = {"id", "password"}
    /\ last.res.out = "return"
    /\ ~last.res.isNull
    /\ \E u \in users :
          /\ u.id = last.arg.id
          /\ u.is_active
          /\ u.email \notin DemoEmails
          /\ u.password_hash.alg = "argon2id"
          /\ u.password_hash.pw = last.arg.password
          /\ last.arg.password \notin CreatePasswords

\* C25: in every step a stored row keeps its id and its created_at, unless
\* the step is a deleteUser of that id, which removes it; a row that appears
\* gets an id no row had before.
C25_IdAndCreatedAtFixed ==
    [][ /\ \A u \in users :
              \/ \E v \in users' : v.id = u.id /\ v.created_at = u.created_at
              \/ CallOf("deleteUser") /\ last'.arg = u.id
        /\ \A v \in users' :
              (\A u \in users : u.id # v.id) => v.id >= nextId
      ]_vars

\* C25 witness: updateUser changed the username and email of a row at a later
\* time than the row was created, and the row still shows the earlier
\* created_at.
C25_Witness ==
    /\ last.op = "updateUser"
    /\ last.res.out = "return"
    /\ ~last.res.isNull
    /\ {"username", "email"} \subseteq DOMAIN last.arg
    /\ \E u \in users :
          /\ u.id = last.arg.id
          /\ u.created_at < u.updated_at
          /\ u.updated_at = now

\* C26: a login without an unexpected failure, with a demo user's email and
\* password as getDemoUsers lists them, for the active row that
\* seedDemoUsers inserted for that demo user, returns success, "Login
\* successful" and the row's safe fields.
C26_SeededDemoLoginSucceeds ==
    [][ (CallOf("login") /\ last'.arg.fault = "none") =>
          \A i \in DOMAIN getDemoUsers : \A u \in users :
              ( /\ last'.arg.input.email = getDemoUsers[i].email
                /\ last'.arg.input.password = getDemoUsers[i].password
                /\ u.email = getDemoUsers[i].email
                /\ u.username = getDemoUsers[i].username
                /\ u.password_hash = hashPassword(getDemoUsers[i].password)
                /\ u.is_active )
              => last'.res = Return(<<SafeUserOf(u)>>, FALSE, TRUE, "Login successful")
      ]_vars

\* C27: right after a successful updateUser that set is_active to false,
\* every login for the row's email whose lookup works returns "Account is
\* deactivated"; right after a successful updateUser that set is_active back
\* to true and carried no password, a login with the password the row's
\* digest was made from succeeds.
C27_LoginFollowsIsActive ==
    [][ ( /\ CallOf("updateUser")
          /\ last'.res.out = "return"
          /\ ~last'.res.isNull
          /\ "is_active" \in DOMAIN last'.arg )
        => LET input == last'.arg
               old   == RowOf(users, input.id)
               new   == RowOf(users', input.id)
               after == [users |-> users', nextId |-> nextId']
               login(p, fault) ==
                   loginUser(after, [email |-> new.email, password |-> p], fault).res
           IN /\ ~input.is_active =>
                    \A p \in LoginPasswords : \A fault \in {"none", "verify"} :
                        login(p, fault) =
                            Return(<< >>, FALSE, FALSE, "Account is deactivated")
              /\ ( /\ input.is_active
                   /\ ~old.is_active
                   /\ "password" \notin DOMAIN input )
                 => login(old.password_hash.pw, "none") =
                       Return(<<SafeUserOf(new)>>, FALSE, TRUE, "Login successful")
      ]_vars

\* C28: when the row an updateUser call found in its lookup is gone by the
\* time its update statement runs (a deleteUser of that id took effect in
\* between), the call returns null and the statement leaves the table as it
\* is: the deleted row is not put back, whole or in part.
C28_UpdateAfterDeleteReturnsNull ==
    [][ \A k \in DOMAIN reqs :
          ( /\ reqs[k].op = "updateUser"
            /\ reqs[k].pc = "update"
            /\ reqs'[k].pc = "done"
            /\ \A u \in users : u.id # reqs[k].arg.id )
          => /\ reqs'[k].res = Return(<< >>, TRUE, FALSE, "")
             /\ users' = users
      ]_vars

\* C28 witness: an updateUser call that found the row in its lookup returned
\* null, a deleteUser call for the same id returned true, and no row has
\* the id.
C28_Witness ==
    \E k \in DOMAIN reqs : \E d \in DOMAIN reqs :
        /\ reqs[k].op = "updateUser"
        /\ reqs[k].pc = "done"
        /\ reqs[k].existingUser # {}
        /\ reqs[k].res = Return(<< >>, TRUE, FALSE, "")
        /\ reqs[d].op = "deleteUser"
        /\ reqs[d].arg = reqs[k].arg.id
        /\ reqs[d].res.flag
        /\ \A u \in users : u.id # reqs[k].arg.id

\* C29: of two updateUser calls that overlap on one id, supply disjoint sets
\* of fields and both found the row, while no other call updates or deletes,
\* each call that returns hands back a user, and the stored row then holds
\* the values that call supplied, whatever the order of the statements.
C29_DisjointUpdatesBothTakeEffect ==
    \A a \in DOMAIN reqs : \A b \in DOMAIN reqs :
        ( /\ a # b
          /\ reqs[a].op = "updateUser" /\ reqs[a].pc = "done"
          /\ reqs[b].op = "updateUser" /\ reqs[b].pc = "done"
          /\ reqs[a].arg.id = reqs[b].arg.id
          /\ DOMAIN reqs[a].arg \cap DOMAIN reqs[b].arg = {"id"}
          /\ reqs[a].existingUser # {}
          /\ reqs[b].existingUser # {}
          /\ \A c \in DOMAIN reqs \ {a, b} :
                reqs[c].op \in {"createUser", "seedDemoUsers"} )
        => \A x \in {a, b} :
              reqs[x].res.out = "return"
              => /\ ~reqs[x].res.isNull
                 /\ \E u \in users :
                       /\ u.id = reqs[x].arg.id
                       /\ \A f \in DOMAIN reqs[x].arg : u[f] = reqs[x].arg[f]

\* C29 witness: two updateUser calls on one id with disjoint fields both
\* returned a user, and the row each of them read in its lookup held none of
\* the values the other supplied: both lookups came before both updates.
C29_Witness ==
    \E a \in DOMAIN reqs : \E b \in DOMAIN reqs :
        /\ a # b
        /\ reqs[a].op = "updateUser" /\ reqs[a].pc = "done"
        /\ reqs[b].op = "updateUser" /\ reqs[b].pc = "done"
        /\ reqs[a].arg.id = reqs[b].arg.id
        /\ DOMAIN reqs[a].arg \cap DOMAIN reqs[b].arg = {"id"}
        /\ reqs[a].res.out = "return" /\ ~reqs[a].res.isNull
        /\ reqs[b].res.out = "return" /\ ~reqs[b].res.isNull
        /\ \A u \in reqs[a].existingUser :
              \A f \in DOMAIN reqs[b].arg \ {"id"} : u[f] # reqs[b].arg[f]
        /\ \A u \in reqs[b].existingUser :
              \A f \in DOMAIN reqs[a].arg \ {"id"} : u[f] # reqs[a].arg[f]
        /\ reqs[a].existingUser # {} /\ reqs[b].existingUser # {}

\* C30: seedDemoUsers raises exactly when some demo user has no row with its
\* email while a row holds its username; it then raises the conflict of the
\* insert, every row stored before the call is still stored, the demo users
\* ahead of the first such one have their rows, those it inserted in this
\* call included, and nothing was inserted for that one or the ones after it.
C30_SeedNotAtomic ==
    [][ CallOf("seedDemoUsers")
        => LET Missing(rows, i) ==
                   \A u \in rows : u.email # DEMO_USERS[i].email
               Blocked(i) ==
                   /\ Missing(users, i)
                   /\ \E u \in users : u.username = DEMO_USERS[i].username
           IN /\ last'.res.out = "throw" <=> \E i \in DOMAIN DEMO_USERS : Blocked(i)
              /\ last'.res.out = "throw" =>
                    LET k == CHOOSE i \in DOMAIN DEMO_USERS :
                                 /\ Blocked(i)
                                 /\ \A j \in 1..(i - 1) : ~Blocked(j)
                    IN /\ last'.res = Throw("Conflict")
                       /\ users \subseteq users'
                       /\ \A j \in 1..(k - 1) : ~Missing(users', j)
                       /\ \A j \in k..Len(DEMO_USERS) :
                             Missing(users, j) => Missing(users', j)
      ]_vars

\* C30 witness: seedDemoUsers raised a conflict on reseller_demo, held by a
\* row with another email, and the admin row it had inserted before is stored.
C30_Witness ==
    /\ last.op = "seedDemoUsers"
    /\ last.res = Throw("Conflict")
    /\ \E u \in users :
          /\ u.username = DEMO_USERS[2].username
          /\ u.email \notin DemoEmails
    /\ \E u \in users :
          /\ u.email = DEMO_USERS[1].email
          /\ u.username = DEMO_USERS[1].username
          /\ u.password_hash = hashPassword(DEMO_USERS[1].password)
    /\ \A u \in users : u.email # DEMO_USERS[3].email

====
